---- MODULE Spec2Model ----
(***************************************************************************)
(* Model of manage.py, the entry point of the 'PyPi Portal' Flask/Celery   *)
(* application: docopt parsing of the command line, registration of the   *)
(* commands by the @command decorator, the __main__ block (SIGINT handler, *)
(* setup_logging, port check, dispatch) and the command functions.         *)
(***************************************************************************)
EXTENDS Integers, Sequences, FiniteSets, TLC

(* ------------------------------ bounds -------------------------------- *)
\* longest port string typed on the command line (the default is separate)
MaxPortLen == 2
\* number of distinct log records the running frameworks emit
MaxRecords == 2

(* ------------------- the usage grammar (docstring) -------------------- *)
Commands ==
    {"devserver", "tornadoserver", "celerydev", "celerybeat",
     "celeryworker", "shell", "create_all"}

\* Usage: lines of the docstring: which flags each command accepts
UsageFlags(cmd) ==
    CASE cmd \in {"devserver", "tornadoserver"} -> {"-p", "-l", "--config_prod"}
      [] cmd \in {"celerydev", "celerybeat", "celeryworker"} -> {"-l", "--config_prod"}
      [] cmd \in {"shell", "create_all"} -> {"--config_prod"}
      [] OTHER -> {}

\* -p NUM --port=NUM  [default: 5000]
DefaultPort == <<"5", "0", "0", "0">>

(* ------------------------ command line inputs -------------------------- *)
PortChars == {"5", "a", "-"}
Digits == {"0", "1", "2", "3", "4", "5", "6", "7", "8", "9"}

RECURSIVE Strings(_)
Strings(n) ==
    IF n = 0 THEN {<<>>}
    ELSE Strings(n - 1) \cup
         {Append(s, c) : s \in {t \in Strings(n - 1) : Len(t) = n - 1}, c \in PortChars}

\* an optional flag value is <<>> (not given) or <<value>>
PortArgs == {<<>>} \cup {<<p>> : p \in Strings(MaxPortLen)}

\* the directories a user may name, with what the file system says of them
Paths == {"", "/var/log/app", "/var/log/ro", "/nonexistent", "/etc/hosts"}
isdir(path) == path \in {"/var/log/app", "/var/log/ro"}
access_W_OK(path) == path \in {"/var/log/app", "/etc/hosts"}
DirArgs == {<<>>} \cup {<<d>> : d \in Paths}

Argvs ==
    [cmd : Commands \cup {"--help", "bogus"},
     port : PortArgs, log_dir : DirArgs, config_prod : BOOLEAN]

\* the flags present on a command line
FlagsOf(a) ==
    (IF a.port # <<>> THEN {"-p"} ELSE {}) \cup
    (IF a.log_dir # <<>> THEN {"-l"} ELSE {}) \cup
    (IF a.config_prod THEN {"--config_prod"} ELSE {})

\* docopt: does the command line match one of the Usage: patterns
Matches(a) == a.cmd \in Commands /\ FlagsOf(a) \subseteq UsageFlags(a.cmd)

\* docopt(__doc__): the parsed-options mapping of a matching command line
docopt(a) ==
    [k \in Commands \cup {"--config_prod", "--log_dir", "--port"} |->
        CASE k = "--config_prod" -> a.config_prod
          [] k = "--log_dir" -> a.log_dir
          [] k = "--port" -> IF a.port = <<>> THEN DefaultPort ELSE a.port[1]
          [] OTHER -> (k = a.cmd)]

(* ----------------------------- logging --------------------------------- *)
FATAL == 50
ERROR == 40
WARN == 30
INFO == 20
DEBUG == 10
\* level numbers of the records the application and its frameworks may log
Levels == {5, DEBUG, INFO, 25, WARN, ERROR, FATAL}
StandardLevels == {DEBUG, INFO, WARN, ERROR, FATAL}

LEVEL_MAP ==
    (FATAL :> "F") @@ (ERROR :> "E") @@ (WARN :> "W") @@ (INFO :> "I") @@ (DEBUG :> "D")

KeyError == "KeyError"

\* CustomFormatter.format: the level letter of the formatted line, or the
\* KeyError raised by the LEVEL_MAP lookup
format(levelno) ==
    IF levelno \in DOMAIN LEVEL_MAP THEN LEVEL_MAP[levelno] ELSE KeyError

\* a digit test that forgets the empty string
isdigit_all(s) == \A i \in 1..Len(s) : s[i] \in Digits

\* str.isdigit(): non-empty and every character a digit
isdigit(s) == Len(s) > 0 /\ \A i \in 1..Len(s) : s[i] \in Digits

\* truth value of OPTIONS['--log_dir']: None and '' are both false
Truthy(opt) == opt # <<>> /\ opt[1] # ""

(* --------------------------- command functions ------------------------- *)
\* a parse_options that ignores --config_prod
parse_options_default(opts) == "pypi_portal.config.Config"

\* parse_options(): the configuration class handed to create_app
parse_options(opts) ==
    IF opts["--config_prod"] THEN "pypi_portal.config.Production"
    ELSE "pypi_portal.config.Config"

\* what each command function does before it hands control to a framework:
\* the create_app calls, whether log_messages runs, the db.create_all calls
\* and the framework loop it enters ("" when it enters none)
devserver(opts) ==
    [apps |-> <<[config |-> parse_options(opts), no_sql |-> FALSE]>>,
     log_messages |-> TRUE, create_all |-> 0, loop |-> "app.run"]

tornadoserver(opts) ==
    [apps |-> <<[config |-> parse_options(opts), no_sql |-> FALSE]>>,
     log_messages |-> TRUE, create_all |-> 0, loop |-> "ioloop.start"]

celerydev(opts) ==
    [apps |-> <<[config |-> parse_options(opts), no_sql |-> TRUE]>>,
     log_messages |-> FALSE, create_all |-> 0, loop |-> "celery worker -B"]

celerybeat(opts) ==
    [apps |-> <<[config |-> parse_options(opts), no_sql |-> TRUE]>>,
     log_messages |-> FALSE, create_all |-> 0, loop |-> "celery beat"]

celeryworker(opts) ==
    [apps |-> <<[config |-> parse_options(opts), no_sql |-> TRUE]>>,
     log_messages |-> FALSE, create_all |-> 0, loop |-> "celery worker"]

shell(opts) ==
    [apps |-> <<[config |-> parse_options(opts), no_sql |-> FALSE]>>,
     log_messages |-> FALSE, create_all |-> 0, loop |-> "Shell.run"]

\* a create_all that creates the tables and then serves like devserver
create_all_serving(opts) ==
    [apps |-> <<[config |-> parse_options(opts), no_sql |-> FALSE]>>,
     log_messages |-> FALSE, create_all |-> 1, loop |-> "app.run"]

create_all(opts) ==
    [apps |-> <<[config |-> parse_options(opts), no_sql |-> FALSE]>>,
     log_messages |-> FALSE, create_all |-> 1, loop |-> ""]

Body(name, opts) ==
    CASE name = "devserver" -> devserver(opts)
      [] name = "tornadoserver" -> tornadoserver(opts)
      [] name = "celerydev" -> celerydev(opts)
      [] name = "celerybeat" -> celerybeat(opts)
      [] name = "celeryworker" -> celeryworker(opts)
      [] name = "shell" -> shell(opts)
      [] name = "create_all" -> create_all(opts)

\* the functions decorated with @command, in the order of the module
Decorated ==
    <<"devserver", "tornadoserver", "celerydev", "celerybeat",
      "celeryworker", "shell", "create_all">>

\* a decorator that registers every function as the chosen one
command_unconditional(name, opts, prev) ==
    IF name \notin DOMAIN opts THEN [raised |-> TRUE, chosen |-> prev]
    ELSE [raised |-> FALSE, chosen |-> name]

\* a decorator that skips a name absent from the grammar instead of raising
command_lenient(name, opts, prev) ==
    IF name \notin DOMAIN opts THEN [raised |-> FALSE, chosen |-> prev]
    ELSE IF opts[name] THEN [raised |-> FALSE, chosen |-> name]
    ELSE [raised |-> FALSE, chosen |-> prev]

\* the @command decorator applied to the function called name, with
\* command.chosen being prev: whether it raises KeyError, and command.chosen
\* afterwards
command(name, opts, prev) ==
    IF name \notin DOMAIN opts THEN [raised |-> TRUE, chosen |-> prev]
    ELSE IF opts[name] THEN [raised |-> FALSE, chosen |-> name]
    ELSE [raised |-> FALSE, chosen |-> prev]

\* SIGINT before __main__ installs a handler: Python raises KeyboardInterrupt,
\* which nothing catches
DefaultSigint == [handler |-> "KeyboardInterrupt", exit |-> 1]

\* a handler that exits with a failure status
SigintHandler_failing == [handler |-> "lambda", exit |-> 1]

\* the handler installed by __main__: lambda *_: sys.exit(0)
SigintHandler == [handler |-> "lambda", exit |-> 0]

(* ------------------------------- state --------------------------------- *)
VARIABLES
    argv,           \* the command line
    defs,           \* names of the functions decorated with @command
    pc,             \* position of the process
    regIdx,         \* number of decorators already applied
    OPTIONS,        \* the parsed-options mapping
    chosen,         \* command.chosen ("" while the attribute is not set)
    sigint,         \* the handler of SIGINT
    rootLevel,      \* level of the root logger
    rootHandlers,   \* handlers of the root logger
    sinks,          \* lines written by logging to each sink
    printed,        \* messages written by print
    logFiles,       \* log files created
    emitted,        \* level numbers of the records logged so far
    formatErrors,   \* level numbers whose formatting raised
    apps,           \* create_app calls made
    invoked,        \* command functions called
    db_create_all,  \* number of db.create_all calls
    loops,          \* framework loops entered
    exitCode,       \* exit status (-1 while the process lives)
    steps,          \* the startup steps executed, in order
    interruptedAt   \* position at which SIGINT arrived ("" if it did not)

vars ==
    <<argv, defs, pc, regIdx, OPTIONS, chosen, sigint, rootLevel, rootHandlers,
      sinks, printed, logFiles, emitted, formatErrors, apps, invoked,
      db_create_all, loops, exitCode, steps, interruptedAt>>

logVars == <<rootLevel, rootHandlers, sinks, logFiles, emitted, formatErrors>>
runVars == <<apps, invoked, db_create_all, loops>>

\* the decorated names with one more, absent from the grammar, at position k
WithBogus(k) ==
    [i \in 1..(Len(Decorated) + 1) |->
        IF i <= k THEN Decorated[i]
        ELSE IF i = k + 1 THEN "bogus_command"
        ELSE Decorated[i - 1]]

InitRest ==
    /\ argv \in Argvs
    /\ pc = "docopt"
    /\ regIdx = 0
    /\ OPTIONS = <<>>
    /\ chosen = ""
    /\ sigint = DefaultSigint
    /\ rootLevel = WARN
    /\ rootHandlers = {}
    /\ sinks = [s \in {"stdout", "disk"} |-> {}]
    /\ printed = <<>>
    /\ logFiles = {}
    /\ emitted = {}
    /\ formatErrors = {}
    /\ apps = <<>>
    /\ invoked = <<>>
    /\ db_create_all = 0
    /\ loops = {}
    /\ exitCode = -1
    /\ steps = <<>>
    /\ interruptedAt = ""

Init == defs = Decorated /\ InitRest

\* the module as it is, or with one more decorated function
InitReg ==
    /\ defs \in {Decorated} \cup {WithBogus(k) : k \in 0..Len(Decorated)}
    /\ InitRest

(* ------------------------------ actions -------------------------------- *)
\* sys.exit(code), or an uncaught exception (code 1)
Exit(code) == pc' = "exited" /\ exitCode' = code

\* line 63: OPTIONS = docopt(__doc__)
Docopt ==
    /\ pc = "docopt"
    /\ steps' = Append(steps, "docopt")
    /\ IF argv.cmd = "--help"
       THEN Exit(0) /\ UNCHANGED OPTIONS
       ELSE IF ~Matches(argv)
       THEN Exit(1) /\ UNCHANGED OPTIONS
       ELSE /\ OPTIONS' = docopt(argv)
            /\ pc' = "import"
            /\ UNCHANGED exitCode
    /\ UNCHANGED <<argv, defs, regIdx, chosen, sigint, printed, interruptedAt>>
    /\ UNCHANGED logVars
    /\ UNCHANGED runVars

\* one application of the @command decorator
Register ==
    /\ pc = "import"
    /\ regIdx < Len(defs)
    /\ LET r == command(defs[regIdx + 1], OPTIONS, chosen) IN
        /\ regIdx' = regIdx + 1
        /\ steps' = Append(steps, "command")
        /\ chosen' = r.chosen
        /\ IF r.raised
           THEN Exit(1)
           ELSE /\ pc' = IF regIdx + 1 = Len(defs) THEN "main" ELSE "import"
                /\ UNCHANGED exitCode
    /\ UNCHANGED <<argv, defs, OPTIONS, sigint, printed, interruptedAt>>
    /\ UNCHANGED logVars
    /\ UNCHANGED runVars

\* line 237: signal.signal(signal.SIGINT, lambda *_: sys.exit(0))
InstallSigint ==
    /\ pc = "main"
    /\ sigint' = SigintHandler
    /\ pc' = "setup_logging"
    /\ steps' = Append(steps, "signal")
    /\ UNCHANGED <<argv, defs, regIdx, OPTIONS, chosen, printed, exitCode, interruptedAt>>
    /\ UNCHANGED logVars
    /\ UNCHANGED runVars

\* setup_logging()
setup_logging ==
    /\ pc = "setup_logging"
    /\ steps' = Append(steps, "setup_logging")
    /\ LET dir == OPTIONS["--log_dir"] IN
       IF Truthy(dir) /\ ~isdir(dir[1])
       THEN /\ printed' = Append(printed, "ERROR: Directory does not exist.")
            /\ Exit(1)
            /\ UNCHANGED <<rootLevel, rootHandlers>>
       ELSE IF Truthy(dir) /\ ~access_W_OK(dir[1])
       THEN /\ printed' = Append(printed, "ERROR: No permissions to write to directory.")
            /\ Exit(1)
            /\ UNCHANGED <<rootLevel, rootHandlers>>
       ELSE LET log_to_disk == Truthy(dir) IN
            /\ rootLevel' = DEBUG
            /\ rootHandlers' = rootHandlers \cup
                 {[stream |-> "stdout",
                   level |-> IF log_to_disk THEN ERROR ELSE DEBUG]}
            /\ pc' = "port_check"
            /\ UNCHANGED <<printed, exitCode>>
    /\ UNCHANGED <<argv, defs, regIdx, OPTIONS, chosen, sigint, interruptedAt>>
    /\ UNCHANGED <<sinks, logFiles, emitted, formatErrors>>
    /\ UNCHANGED runVars

\* lines 239-241: if not OPTIONS['--port'].isdigit()
PortCheck ==
    /\ pc = "port_check"
    /\ steps' = Append(steps, "port_check")
    /\ IF ~isdigit(OPTIONS["--port"])
       THEN /\ printed' = Append(printed, "ERROR: Port should be a number.")
            /\ Exit(1)
       ELSE /\ pc' = "invoke"
            /\ UNCHANGED <<printed, exitCode>>
    /\ UNCHANGED <<argv, defs, regIdx, OPTIONS, chosen, sigint, interruptedAt>>
    /\ UNCHANGED logVars
    /\ UNCHANGED runVars

\* the handlers of the root logger that take a record of this level
Takers(levelno) ==
    IF levelno >= rootLevel THEN {h \in rootHandlers : levelno >= h.level} ELSE {}

\* the sinks after a record of this level was logged
Logged(out, levelno) ==
    [s \in DOMAIN out |->
        IF format(levelno) # KeyError /\ \E h \in Takers(levelno) : h.stream = s
        THEN out[s] \cup {<<levelno, format(levelno)>>}
        ELSE out[s]]

\* the formatting failures after a record of this level was logged
Failed(errs, levelno) ==
    IF format(levelno) = KeyError /\ Takers(levelno) # {}
    THEN errs \cup {levelno} ELSE errs

\* line 242: getattr(command, 'chosen')(), up to the framework's own loop
Invoke ==
    /\ pc = "invoke"
    /\ steps' = Append(steps, "invoke")
    /\ IF chosen = ""
       THEN Exit(1) /\ UNCHANGED runVars /\ UNCHANGED <<sinks, emitted, formatErrors>>
       ELSE LET b == Body(chosen, OPTIONS) IN
            /\ invoked' = Append(invoked, chosen)
            /\ apps' = apps \o b.apps
            /\ db_create_all' = db_create_all + b.create_all
            /\ loops' = IF b.loop = "" THEN loops ELSE loops \cup {b.loop}
            /\ sinks' = IF b.log_messages THEN Logged(sinks, INFO) ELSE sinks
            /\ formatErrors' = IF b.log_messages THEN Failed(formatErrors, INFO)
                                ELSE formatErrors
            /\ emitted' = IF b.log_messages THEN emitted \cup {INFO} ELSE emitted
            /\ pc' = "running"
            /\ UNCHANGED exitCode
    /\ UNCHANGED <<argv, defs, regIdx, OPTIONS, chosen, sigint, printed, interruptedAt>>
    /\ UNCHANGED <<rootLevel, rootHandlers, logFiles>>

\* the running application or framework logs a record
Emit ==
    /\ pc = "running"
    /\ Cardinality(emitted) < MaxRecords
    /\ \E levelno \in Levels \ emitted :
        /\ emitted' = emitted \cup {levelno}
        /\ sinks' = Logged(sinks, levelno)
        /\ formatErrors' = Failed(formatErrors, levelno)
    /\ UNCHANGED <<argv, defs, pc, regIdx, OPTIONS, chosen, sigint, printed,
                   exitCode, steps, interruptedAt>>
    /\ UNCHANGED <<rootLevel, rootHandlers, logFiles>>
    /\ UNCHANGED runVars

\* the command function returns and the script ends
Return ==
    /\ pc = "running"
    /\ steps' = Append(steps, "return")
    /\ Exit(0)
    /\ UNCHANGED <<argv, defs, regIdx, OPTIONS, chosen, sigint, printed, interruptedAt>>
    /\ UNCHANGED logVars
    /\ UNCHANGED runVars

\* SIGINT arrives and the current handler ends the process
Sigint ==
    /\ pc # "exited"
    /\ interruptedAt' = pc
    /\ steps' = Append(steps, "sigint")
    /\ Exit(sigint.exit)
    /\ UNCHANGED <<argv, defs, regIdx, OPTIONS, chosen, sigint, printed>>
    /\ UNCHANGED logVars
    /\ UNCHANGED runVars

Next ==
    \/ Docopt
    \/ Register
    \/ InstallSigint
    \/ setup_logging
    \/ PortCheck
    \/ Invoke
    \/ Emit
    \/ Return
    \/ Sigint

Spec == Init /\ [][Next]_vars

SpecReg == InitReg /\ [][Next]_vars

(* ----------------------------- properties ------------------------------ *)
Contains(seq, x) == \E i \in 1..Len(seq) : seq[i] = x
Last(seq) == seq[Len(seq)]
Production == "pypi_portal.config.Production"
Development == "pypi_portal.config.Config"

\* the process ended on its own account, not by a signal
EndedUninterrupted == pc = "exited" /\ interruptedAt = ""

NoFlags == argv.cmd \in Commands /\ FlagsOf(argv) = {}

\* C1: a supported command given with no flags selects the command function
\* of that name, which is the only one called: no other function is ever
\* called, once all decorators ran the chosen function is the command's, and
\* the process does not end (unless a signal ends it) without having called it
\* exactly once.
C1_ExactlyOneHandler ==
    NoFlags =>
        /\ Len(invoked) <= 1
        /\ \A i \in 1..Len(invoked) : invoked[i] = argv.cmd
        /\ (pc \in {"main", "setup_logging", "port_check", "invoke", "running"}
                => chosen = argv.cmd)
        /\ (pc = "running" \/ Contains(steps, "invoke")) => invoked = <<argv.cmd>>
        /\ EndedUninterrupted => (invoked = <<argv.cmd>> /\ exitCode = 0)

C1_Witness ==
    /\ NoFlags /\ argv.cmd = "celerybeat"
    /\ EndedUninterrupted
    /\ invoked = <<"celerybeat">>

\* the port given on the command line is not a string of decimal digits
BadPort ==
    /\ argv.cmd \in Commands
    /\ argv.port # <<>>
    /\ (argv.port[1] = <<>> \/ \E i \in 1..Len(argv.port[1]) : argv.port[1][i] \notin Digits)

\* C2: with a port that is not a number, whatever the command, no command
\* function is ever called (no application is built, no loop is entered), the
\* port check ends the process with status 1, and the process never ends on
\* its own account with another status.
C2_BadPortExits1 ==
    BadPort =>
        /\ invoked = <<>> /\ apps = <<>> /\ loops = {} /\ db_create_all = 0
        /\ pc \notin {"invoke", "running"}
        /\ Contains(steps, "port_check") => (pc = "exited" /\ exitCode = 1)
        /\ EndedUninterrupted => exitCode = 1

C2_Witness ==
    /\ BadPort /\ argv.cmd = "devserver"
    /\ pc = "exited" /\ exitCode = 1
    /\ Last(steps) = "port_check"
    /\ Last(printed) = "ERROR: Port should be a number."

LogDirInvalid ==
    /\ Matches(argv)
    /\ argv.log_dir # <<>>
    /\ (~isdir(argv.log_dir[1]) \/ ~access_W_OK(argv.log_dir[1]))

OnConsole(levelno) == \E line \in sinks["stdout"] : line[1] = levelno
OnDisk(levelno) == \E line \in sinks["disk"] : line[1] = levelno

\* C4: without a log directory every logged record of a standard severity is
\* on the console; with a valid log directory the console has the records of
\* severity ERROR and above only, and the records below ERROR are on disk.
C4_EveryRecordReachesASink ==
    \A levelno \in emitted \cap StandardLevels :
        /\ argv.log_dir = <<>> => OnConsole(levelno)
        /\ (argv.log_dir # <<>> /\ ~LogDirInvalid) =>
              /\ OnConsole(levelno) <=> levelno >= ERROR
              /\ levelno < ERROR => OnDisk(levelno)

\* C5: SIGINT arriving while the chosen command function runs ends the process
\* with status 0, and the handler is installed before logging is set up,
\* before the port is checked and before the command function is called (so
\* that SIGINT arriving at any of these steps ends the process with status 0
\* too).
C5_SigintExits0 ==
    /\ interruptedAt = "running" => (pc = "exited" /\ exitCode = 0)
    /\ (\/ Contains(steps, "setup_logging")
        \/ Contains(steps, "port_check")
        \/ Contains(steps, "invoke")
        \/ pc \in {"setup_logging", "port_check", "invoke", "running"})
           => (Contains(steps, "signal") /\ sigint = SigintHandler)
    /\ interruptedAt \in {"setup_logging", "port_check", "invoke"} => exitCode = 0

C5_Witness ==
    /\ interruptedAt = "running"
    /\ invoked = <<"tornadoserver">>
    /\ pc = "exited" /\ exitCode = 0

CreateAllProd == argv.cmd = "create_all" /\ argv.config_prod /\ Matches(argv)

\* C6: create_all with --config_prod chooses the create_all function, which
\* calls db.create_all exactly once on an application built from the
\* production configuration; no framework loop is ever entered and the
\* process then ends with status 0.
C6_CreateAllOnce ==
    CreateAllProd =>
        /\ loops = {} /\ db_create_all <= 1
        /\ \A i \in 1..Len(invoked) : invoked[i] = "create_all"
        /\ pc = "running" => (invoked = <<"create_all">> /\ db_create_all = 1)
        /\ EndedUninterrupted =>
              /\ invoked = <<"create_all">>
              /\ db_create_all = 1
              /\ apps = <<[config |-> Production, no_sql |-> FALSE]>>
              /\ Last(steps) = "return"
              /\ exitCode = 0

C6_Witness ==
    /\ CreateAllProd
    /\ EndedUninterrupted
    /\ db_create_all = 1 /\ exitCode = 0

Letters == {"F", "E", "W", "I", "D"}

\* C7: every record that reaches the formatter, whatever its level number, is
\* formatted without error, with one of the letters F, E, W, I, D as its
\* severity code.
C7_FormatAlwaysSucceeds ==
    /\ formatErrors = {}
    /\ \A s \in DOMAIN sinks : \A line \in sinks[s] : line[2] \in Letters

StartupOrder ==
    <<"docopt", "command", "command", "command", "command", "command",
      "command", "command", "signal", "setup_logging", "port_check", "invoke",
      "return">>

\* the startup steps executed, the arrival of a signal left out
OwnSteps == SelectSeq(steps, LAMBDA x : x # "sigint")

\* C8: the startup steps run in the order parse options, set up logging,
\* check the port, call the command function; with an invalid log directory
\* and a port that is not a number the process ends with status 1 in
\* setup_logging and the port is never checked; when the port check ends the
\* process, the console handler is already installed.
C8_StartupOrder ==
    /\ Len(OwnSteps) <= Len(StartupOrder)
    /\ \A i \in 1..Len(OwnSteps) : OwnSteps[i] = StartupOrder[i]
    /\ (LogDirInvalid /\ BadPort) =>
          /\ ~Contains(steps, "port_check")
          /\ EndedUninterrupted => (exitCode = 1 /\ Last(steps) = "setup_logging")
    /\ (pc = "exited" /\ Last(steps) = "port_check") =>
          \E h \in rootHandlers : h.stream = "stdout"

\* C9: applying the decorator to a function whose name is not in the usage
\* grammar raises at once: that application leaves command.chosen as it was
\* and ends the process with status 1, before the SIGINT handler is installed,
\* before logging is set up and before any command function is called.
C9_UnknownNameRaises ==
    /\ [][(pc = "import" /\ regIdx' = regIdx + 1 /\ defs[regIdx + 1] \notin Commands)
            => (chosen' = chosen /\ pc' = "exited" /\ exitCode' = 1)]_vars
    /\ []((regIdx > 0 /\ defs[regIdx] \notin Commands) =>
            /\ pc = "exited" /\ exitCode = 1
            /\ sigint = DefaultSigint /\ ~Contains(steps, "signal")
            /\ rootHandlers = {} /\ ~Contains(steps, "setup_logging")
            /\ invoked = <<>> /\ apps = <<>>)

C9_Witness ==
    /\ regIdx > 1 /\ defs[regIdx] \notin Commands
    /\ pc = "exited" /\ exitCode = 1
    /\ chosen = "devserver"

\* C10: every command function builds the application exactly once, from the
\* production configuration if --config_prod was given and from the
\* development configuration otherwise, whatever the command, the port and
\* the log directory.
C10_ConfigProfile ==
    /\ Len(apps) <= 1
    /\ Len(apps) = Len(invoked)
    /\ invoked # <<>> =>
          apps[1].config = IF argv.config_prod THEN Production ELSE Development

C10_Witness ==
    /\ invoked = <<"celeryworker">>
    /\ argv.config_prod /\ argv.log_dir # <<>>
    /\ Len(apps) = 1 /\ apps[1].config = Production

====
